---- MODULE Spec2Model ----
(***************************************************************************)
(* Oral-reading-fluency scoring (kanishk-pant/orf-english, backend).       *)
(*                                                                         *)
(* ORFAssessment.align_sequences aligns the reference words with the       *)
(* transcript words through difflib.SequenceMatcher(None, a, b) and turns  *)
(* the opcodes into hits, substitutions, insertions and deletions.         *)
(* Python indices are kept 0-based in the records; a Python list x is the  *)
(* TLA+ sequence x with x[i] written x[i + 1].  A word is a sequence of    *)
(* one-character strings.                                                  *)
(***************************************************************************)
EXTENDS Integers, Sequences, FiniteSets, TLC

VARIABLES
    reference_words,   \* align_sequences: argument reference_words
    transcript_words,  \* align_sequences: argument transcript_words
    queue,             \* get_matching_blocks: work list of (alo, ahi, blo, bhi)
    matching_blocks,   \* get_matching_blocks: blocks found so far
    match_local,       \* get_matching_blocks: the popped range and x = (i, j, k)
    opcodes,           \* matcher.get_opcodes()
    op_idx,            \* position of the for loop over the opcodes (1-based)
    hits, substitutions, insertions, deletions,
    pc,                \* position inside align_sequences
    call_args,         \* one caller of ORFAssessment: the arguments it passes
    call_errors,       \* what validate_inputs(audio_path, text) returned
    call_results,      \* what assess_reading(audio_path, text, duration) returned
    students,          \* table "students", in insertion order
    assessments,       \* table "assessments", in insertion order
    req                \* the HTTP requests: arguments, locals, position, response

alignVars == <<reference_words, transcript_words, queue, matching_blocks,
               match_local, opcodes, op_idx, hits, substitutions, insertions,
               deletions, pc>>

callVars == <<call_args, call_errors, call_results>>

apiVars == <<students, assessments, req>>

vars == <<alignVars, callVars, apiVars>>

----------------------------------------------------------------------------
(* Bounds of the checked instances *)

MaxLen == 3
MaxLongPrefix == 1
LongExtra == 0
MaxTail == 2
NumRequests == 2

----------------------------------------------------------------------------
(* Small helpers *)

Min(S) == CHOOSE x \in S : \A y \in S : x <= y

MinOf(x, y) == IF x <= y THEN x ELSE y

\* max() taken for min()
MaxOf_Min(x, y) == IF x <= y THEN x ELSE y

MaxOf(x, y) == IF x >= y THEN x ELSE y

Range(s) == {s[n] : n \in 1..Len(s)}

EmptyMap == [n \in {} |-> 0]

\* Python slice s[lo:hi] for 0 <= lo <= hi <= len(s)
Slice(s, lo, hi) == SubSeq(s, lo + 1, hi)

SeqsUpTo(S, n) == UNION {[1..m -> S] : m \in 0..n}

----------------------------------------------------------------------------
(* difflib.SequenceMatcher(None, a, b): isjunk is None, autojunk is True *)

AutoJunkMinLen == 200
AutoJunkPercent == 100

Indices(b, elt) == {j \in 0..(Len(b) - 1) : b[j + 1] = elt}

\* __chain_b: elements of b occurring more than n // 100 + 1 times when n >= 200
Popular(b) ==
    IF Len(b) >= AutoJunkMinLen
    THEN {elt \in Range(b) :
            Cardinality(Indices(b, elt)) > (Len(b) \div AutoJunkPercent) + 1}
    ELSE {}

\* __chain_b: b2j maps each non-popular element of b to its indices in b
ChainB(b) == [elt \in (Range(b) \ Popular(b)) |-> Indices(b, elt)]

\* find_longest_match, inner loop: for j in b2j.get(a[i], nothing), ascending,
\* skipping j < blo and stopping at j >= bhi (js holds the remaining indices)
RECURSIVE InnerLoop(_, _, _, _, _)
InnerLoop(js, i, j2len, newj2len, best) ==
    IF js = {}
    THEN [j2len |-> newj2len, best |-> best]
    ELSE LET j == Min(js)
             k == (IF (j - 1) \in DOMAIN j2len THEN j2len[j - 1] ELSE 0) + 1
             nb == IF k > best.k
                   THEN [i |-> i - k + 1, j |-> j - k + 1, k |-> k]
                   ELSE best
         IN  InnerLoop(js \ {j}, i, j2len, (j :> k) @@ newj2len, nb)

\* find_longest_match, body of "for i in range(alo, ahi)"; st is (j2len, best)
OuterBody(a, b2j, i, blo, bhi, st) ==
    LET js == IF a[i + 1] \in DOMAIN b2j
              THEN {j \in b2j[a[i + 1]] : j >= blo /\ j < bhi}
              ELSE {}
    IN  InnerLoop(js, i, st.j2len, EmptyMap, st.best)

\* find_longest_match, outer loop: for i in range(lo, hi), in ascending order
\* (the range is halved, and the state after the first half is evaluated before
\* the second half starts, so that the evaluation depth stays logarithmic)
RECURSIVE OuterLoop(_, _, _, _, _, _, _)
OuterLoop(a, b2j, lo, hi, blo, bhi, st) ==
    IF lo >= hi THEN st
    ELSE IF hi = lo + 1 THEN OuterBody(a, b2j, lo, blo, bhi, st)
    ELSE LET mid == (lo + hi) \div 2
             st1 == OuterLoop(a, b2j, lo, mid, blo, bhi, st)
         IN  CASE st1.best.k >= 0 -> OuterLoop(a, b2j, mid, hi, blo, bhi, st1)

\* find_longest_match: "while besti > alo and bestj > blo and
\* a[besti-1] == b[bestj-1]" (no element is junk, so isbjunk is always false):
\* the loop runs d times, d the first offset at which its condition fails
ExtendBack(a, b, alo, blo, m) ==
    LET limit == MinOf(m.i - alo, m.j - blo)
        d == Min({n \in 0..(limit - 1) : a[m.i - n] /= b[m.j - n]} \cup {limit})
    IN  [i |-> m.i - d, j |-> m.j - d, k |-> m.k + d]

\* find_longest_match without the forward extension of the best block
ExtendFwd_None(a, b, ahi, bhi, m) == m

\* find_longest_match: "while besti+bestsize < ahi and bestj+bestsize < bhi and
\* a[besti+bestsize] == b[bestj+bestsize]"
ExtendFwd(a, b, ahi, bhi, m) ==
    LET limit == MinOf(ahi - (m.i + m.k), bhi - (m.j + m.k))
        d == Min({n \in 0..(limit - 1) :
                    a[m.i + m.k + n + 1] /= b[m.j + m.k + n + 1]} \cup {limit})
    IN  [m EXCEPT !.k = m.k + d]

\* The two loops that extend by junk never run: bjunk is empty.
find_longest_match(a, b, alo, ahi, blo, bhi) ==
    LET best0 == [i |-> alo, j |-> blo, k |-> 0]
        st == OuterLoop(a, ChainB(b), alo, ahi, blo, bhi,
                        [j2len |-> EmptyMap, best |-> best0])
        best1 == st.best
        best2 == ExtendBack(a, b, alo, blo, best1)
    IN  ExtendFwd(a, b, ahi, bhi, best2)

\* get_matching_blocks, one turn of "while queue" after the pop of cur and the
\* call x = find_longest_match(alo, ahi, blo, bhi): the new queue and blocks
MatchFound(rest, cur, x, blocks) ==
    LET q1 == IF cur.alo < x.i /\ cur.blo < x.j
              THEN Append(rest, [alo |-> cur.alo, ahi |-> x.i,
                                 blo |-> cur.blo, bhi |-> x.j])
              ELSE rest
        q2 == IF x.i + x.k < cur.ahi /\ x.j + x.k < cur.bhi
              THEN Append(q1, [alo |-> x.i + x.k, ahi |-> cur.ahi,
                               blo |-> x.j + x.k, bhi |-> cur.bhi])
              ELSE q1
        local == [alo |-> cur.alo, ahi |-> cur.ahi, blo |-> cur.blo,
                  bhi |-> cur.bhi, i |-> x.i, j |-> x.j, k |-> x.k]
    IN  IF x.k /= 0
        THEN [queue |-> q2, blocks |-> Append(blocks, x), local |-> local]
        ELSE [queue |-> rest, blocks |-> blocks, local |-> local]

\* get_matching_blocks, one turn of "while queue": the new queue and blocks,
\* and the locals alo, ahi, blo, bhi, i, j, k of the turn
MatchTurn(a, b, q, blocks) ==
    MatchFound(SubSeq(q, 1, Len(q) - 1), q[Len(q)],
               find_longest_match(a, b, q[Len(q)].alo, q[Len(q)].ahi,
                                  q[Len(q)].blo, q[Len(q)].bhi),
               blocks)

\* tuple order of (i, j, k), as list.sort() compares the Match tuples
BlockLess(x, y) ==
    \/ x.i < y.i
    \/ x.i = y.i /\ x.j < y.j
    \/ x.i = y.i /\ x.j = y.j /\ x.k < y.k

RECURSIVE InsertBlock(_, _)
InsertBlock(x, s) ==
    IF s = <<>> THEN <<x>>
    ELSE IF BlockLess(x, Head(s)) THEN <<x>> \o s
    ELSE <<Head(s)>> \o InsertBlock(x, Tail(s))

\* matching_blocks.sort()
RECURSIVE SortBlocks(_)
SortBlocks(s) ==
    IF s = <<>> THEN <<>> ELSE InsertBlock(Head(s), SortBlocks(Tail(s)))

\* get_matching_blocks: collapse adjacent blocks; cur1 is (i1, j1, k1)
RECURSIVE Collapse(_, _, _)
Collapse(s, cur1, out) ==
    IF s = <<>>
    THEN IF cur1.k /= 0 THEN Append(out, cur1) ELSE out
    ELSE LET x2 == Head(s)
         IN  IF cur1.i + cur1.k = x2.i /\ cur1.j + cur1.k = x2.j
             THEN Collapse(Tail(s), [cur1 EXCEPT !.k = cur1.k + x2.k], out)
             ELSE Collapse(Tail(s), x2,
                           IF cur1.k /= 0 THEN Append(out, cur1) ELSE out)

\* get_matching_blocks without the closing (la, lb, 0) block
NonAdjacent_NoSentinel(blocks, la, lb) ==
    Collapse(SortBlocks(blocks), [i |-> 0, j |-> 0, k |-> 0], <<>>)

\* get_matching_blocks after the loop: sort, collapse, append (la, lb, 0)
NonAdjacent(blocks, la, lb) ==
    Append(Collapse(SortBlocks(blocks), [i |-> 0, j |-> 0, k |-> 0], <<>>),
           [i |-> la, j |-> lb, k |-> 0])

\* get_opcodes: for ai, bj, size in self.get_matching_blocks()
RECURSIVE OpcodeLoop(_, _, _, _)
OpcodeLoop(s, i, j, answer) ==
    IF s = <<>> THEN answer
    ELSE LET m == Head(s)
             tag == IF i < m.i /\ j < m.j THEN "replace"
                    ELSE IF i < m.i THEN "delete"
                    ELSE IF j < m.j THEN "insert"
                    ELSE ""
             a1 == IF tag /= ""
                   THEN Append(answer, [tag |-> tag, i1 |-> i, i2 |-> m.i,
                                        j1 |-> j, j2 |-> m.j])
                   ELSE answer
             a2 == IF m.k /= 0
                   THEN Append(a1, [tag |-> "equal", i1 |-> m.i, i2 |-> m.i + m.k,
                                    j1 |-> m.j, j2 |-> m.j + m.k])
                   ELSE a1
         IN  OpcodeLoop(Tail(s), m.i + m.k, m.j + m.k, a2)

get_opcodes(blocks, la, lb) == OpcodeLoop(NonAdjacent(blocks, la, lb), 0, 0, <<>>)

----------------------------------------------------------------------------
(* ORFAssessment.align_sequences: the loop over the opcodes *)

\* "x[k] if k < len(x) else None"; None and '' are the falsy values
None == [some |-> FALSE]

Some(w) == [some |-> TRUE, val |-> w]

Truthy(o) == o.some /\ o.val /= <<>>

ItemOrNone(s, k) == IF k < Len(s) THEN Some(s[k + 1]) ELSE None

\* tag == 'equal': for i, j in zip(range(i1, i2), range(j1, j2))
EqualPairs(a, b, op) ==
    [n \in 1..MinOf(op.i2 - op.i1, op.j2 - op.j1) |->
        <<a[op.i1 + n], b[op.j1 + n]>>]

\* the body of the replace loop pairing like zip(): the leftover of the longer
\* slice is dropped
ReplaceBody_ZipOnly(ref_slice, trans_slice, k, acc) ==
    LET ref_word == ItemOrNone(ref_slice, k)
        trans_word == ItemOrNone(trans_slice, k)
    IN  IF Truthy(ref_word) /\ Truthy(trans_word)
        THEN [acc EXCEPT !.substitutions =
                 Append(@, <<ref_word.val, trans_word.val>>)]
        ELSE acc

\* tag == 'replace', body of "for k in range(max_len)"; acc holds the lists
ReplaceBody(ref_slice, trans_slice, k, acc) ==
    LET ref_word == ItemOrNone(ref_slice, k)
        trans_word == ItemOrNone(trans_slice, k)
    IN  IF Truthy(ref_word) /\ Truthy(trans_word)
        THEN [acc EXCEPT !.substitutions =
                 Append(@, <<ref_word.val, trans_word.val>>)]
        ELSE IF Truthy(ref_word) /\ ~Truthy(trans_word)
        THEN [acc EXCEPT !.deletions = Append(@, ref_word.val)]
        ELSE IF ~Truthy(ref_word) /\ Truthy(trans_word)
        THEN [acc EXCEPT !.insertions = Append(@, trans_word.val)]
        ELSE acc

\* tag == 'replace': for k in range(lo, hi), in ascending order (halved as above)
RECURSIVE ReplaceLoop(_, _, _, _, _)
ReplaceLoop(ref_slice, trans_slice, lo, hi, acc) ==
    IF lo >= hi THEN acc
    ELSE IF hi = lo + 1 THEN ReplaceBody(ref_slice, trans_slice, lo, acc)
    ELSE LET mid == (lo + hi) \div 2
             acc1 == ReplaceLoop(ref_slice, trans_slice, lo, mid, acc)
         IN  CASE Len(acc1.hits) >= 0 ->
                    ReplaceLoop(ref_slice, trans_slice, mid, hi, acc1)

\* the loop over the opcodes without the branch for tag == 'insert'
ClassifyOpcode_NoInsert(a, b, op, acc) ==
    IF op.tag = "equal"
    THEN [acc EXCEPT !.hits = @ \o EqualPairs(a, b, op)]
    ELSE IF op.tag = "replace"
    THEN LET ref_slice == Slice(a, op.i1, op.i2)
             trans_slice == Slice(b, op.j1, op.j2)
         IN  ReplaceLoop(ref_slice, trans_slice, 0,
                         MaxOf(Len(ref_slice), Len(trans_slice)), acc)
    ELSE IF op.tag = "delete"
    THEN [acc EXCEPT !.deletions = @ \o Slice(a, op.i1, op.i2)]
    ELSE acc

\* one turn of "for tag, i1, i2, j1, j2 in matcher.get_opcodes()"
ClassifyOpcode(a, b, op, acc) ==
    IF op.tag = "equal"
    THEN [acc EXCEPT !.hits = @ \o EqualPairs(a, b, op)]
    ELSE IF op.tag = "replace"
    THEN LET ref_slice == Slice(a, op.i1, op.i2)
             trans_slice == Slice(b, op.j1, op.j2)
         IN  ReplaceLoop(ref_slice, trans_slice, 0,
                         MaxOf(Len(ref_slice), Len(trans_slice)), acc)
    ELSE IF op.tag = "delete"
    THEN [acc EXCEPT !.deletions = @ \o Slice(a, op.i1, op.i2)]
    ELSE IF op.tag = "insert"
    THEN [acc EXCEPT !.insertions = @ \o Slice(b, op.j1, op.j2)]
    ELSE acc

EmptyLists == [hits |-> <<>>, substitutions |-> <<>>,
               insertions |-> <<>>, deletions |-> <<>>]

\* get_matching_blocks: "while queue" run to the end
RECURSIVE MatchLoop(_, _, _, _)
MatchLoop(a, b, q, blocks) ==
    IF q = <<>> THEN blocks
    ELSE LET r == MatchTurn(a, b, q, blocks)
         IN  MatchLoop(a, b, r.queue, r.blocks)

\* matcher.get_opcodes() for SequenceMatcher(None, a, b)
Opcodes(a, b) ==
    get_opcodes(MatchLoop(a, b, <<[alo |-> 0, ahi |-> Len(a),
                                   blo |-> 0, bhi |-> Len(b)]>>, <<>>),
                Len(a), Len(b))

\* the for loop over the opcodes run to the end
RECURSIVE ClassifyLoop(_, _, _, _, _)
ClassifyLoop(a, b, ops, idx, acc) ==
    IF idx > Len(ops) THEN acc
    ELSE ClassifyLoop(a, b, ops, idx + 1, ClassifyOpcode(a, b, ops[idx], acc))

\* align_sequences(reference_words, transcript_words) as one call
align_sequences(a, b) == ClassifyLoop(a, b, Opcodes(a, b), 1, EmptyLists)

----------------------------------------------------------------------------
(* assess_reading: the metrics, as exact fractions num / den with den > 0 *)

Frac(n, d) == IF d < 0 THEN [num |-> 0 - n, den |-> 0 - d] ELSE [num |-> n, den |-> d]

FracInt(n) == [num |-> n, den |-> 1]

\* the value of an expression whose evaluation raised ZeroDivisionError
ZeroDivisionError == [num |-> 0, den |-> 0]

\* Python x / y
TrueDiv(x, y) ==
    IF x.den = 0 \/ y.den = 0 \/ y.num = 0 THEN ZeroDivisionError
    ELSE Frac(x.num * y.den, x.den * y.num)

\* Python x - y
FracSub(x, y) ==
    IF x.den = 0 \/ y.den = 0 THEN ZeroDivisionError
    ELSE Frac(x.num * y.den - y.num * x.den, x.den * y.den)

FracEq(x, y) == x.den /= 0 /\ y.den /= 0 /\ x.num * y.den = y.num * x.den

FracGt(x, y) == x.num * y.den > y.num * x.den

\* wer without the "if n_ref > 0" guard
WerOf_NoGuard(n_subs, n_dels, n_ins, n_ref) ==
    TrueDiv(FracInt(n_subs + n_dels + n_ins), FracInt(n_ref))

\* wer = (n_subs + n_dels + n_ins) / n_ref if n_ref > 0 else 0
WerOf(n_subs, n_dels, n_ins, n_ref) ==
    IF n_ref > 0
    THEN TrueDiv(FracInt(n_subs + n_dels + n_ins), FracInt(n_ref))
    ELSE FracInt(0)

\* accuracy = 1 - wer
AccuracyOf(wer) == FracSub(FracInt(1), wer)

----------------------------------------------------------------------------
(* Text: a str is a sequence of one-character strings *)

LowerChars == {"a", "b", "c"}

UpperChars == {"A", "B", "C"}

PunctChars == {",", "-", "."}

SpaceChars == {" ", "\n"}

\* \w of the re module: letters, digits and underscore
IsWordChar(c) == c \in LowerChars \cup UpperChars

\* \s of the re module, the separators of str.split() and str.strip()
IsSpace(c) == c \in SpaceChars

LowerChar(c) ==
    IF c = "A" THEN "a" ELSE IF c = "B" THEN "b" ELSE IF c = "C" THEN "c" ELSE c

\* str.lower()
Lower(text) == [n \in 1..Len(text) |-> LowerChar(text[n])]

KeepChar(c) == IsWordChar(c) \/ IsSpace(c)

\* re.sub(r'[^\w\s]', '', text)
RemovePunct(text) == SelectSeq(text, KeepChar)

\* re.sub(r'\s+', ' ', text): every maximal run of whitespace becomes one ' '
RECURSIVE CollapseSpaces(_)
CollapseSpaces(text) ==
    IF text = <<>> THEN <<>>
    ELSE IF IsSpace(Head(text))
    THEN IF Len(text) >= 2 /\ IsSpace(text[2])
         THEN CollapseSpaces(Tail(text))
         ELSE <<" ">> \o CollapseSpaces(Tail(text))
    ELSE <<Head(text)>> \o CollapseSpaces(Tail(text))

\* str.strip()
Strip(text) ==
    LET solid == {n \in 1..Len(text) : ~IsSpace(text[n])}
    IN  IF solid = {} THEN <<>>
        ELSE SubSeq(text, Min(solid), CHOOSE n \in solid : \A m \in solid : m <= n)

\* ORFAssessment.clean_text
clean_text(text) == Lower(Strip(CollapseSpaces(RemovePunct(text))))

\* str.split(): the maximal runs of non-whitespace; word is the run being read
RECURSIVE SplitLoop(_, _, _)
SplitLoop(text, word, out) ==
    IF text = <<>>
    THEN IF word = <<>> THEN out ELSE Append(out, word)
    ELSE IF IsSpace(Head(text))
    THEN SplitLoop(Tail(text), <<>>, IF word = <<>> THEN out ELSE Append(out, word))
    ELSE SplitLoop(Tail(text), Append(word, Head(text)), out)

Split(text) == SplitLoop(text, <<>>, <<>>)

----------------------------------------------------------------------------
(* ORFAssessment.validate_inputs and ORFAssessment.assess_reading *)

MinWords == 10
SecondsPerMinute == 60

\* librosa.load(audio_path) and the two checks of the samples.  An audio file
\* is "unreadable" (load raises), "empty" (no sample: the length check fails
\* and max() of the empty array raises), "quiet" or "ok".
AudioErrors(audio) ==
    IF audio = "unreadable" THEN <<"Cannot read audio file">>
    ELSE IF audio = "empty" THEN <<"Audio file too short", "Cannot read audio file">>
    ELSE IF audio = "quiet" THEN <<"Audio level too low">>
    ELSE <<>>

\* validate_inputs(audio_path, text): the list of problems
validate_inputs(audio, text) ==
    AudioErrors(audio) \o
    (IF Len(Split(text)) < MinWords
     THEN <<"Text too short (minimum 10 words)">>
     ELSE <<>>)

\* generate_transcript: the recogniser raises, or its decoded output comes back
\* as transcript.strip().lower()
generate_transcript(asr) ==
    IF asr.raises THEN [raised |-> TRUE]
    ELSE [raised |-> FALSE, transcript |-> Lower(Strip(asr.decoded))]

\* "if duration_seconds:" for a float or None
TruthyNumber(o) == o.some /\ o.val.num /= 0

\* wcpm without the "if duration_minutes > 0" guard
WcpmOf_NoPositiveCheck(n_hits, duration_seconds) ==
    IF TruthyNumber(duration_seconds)
    THEN TrueDiv(FracInt(n_hits),
                 TrueDiv(duration_seconds.val, FracInt(SecondsPerMinute)))
    ELSE FracInt(0)

\* wcpm: 0.0, and hits per minute "if duration_seconds" and the minutes are > 0
WcpmOf(n_hits, duration_seconds) ==
    IF TruthyNumber(duration_seconds)
    THEN LET duration_minutes == TrueDiv(duration_seconds.val, FracInt(SecondsPerMinute))
         IN  IF FracGt(duration_minutes, FracInt(0))
             THEN TrueDiv(FracInt(n_hits), duration_minutes)
             ELSE FracInt(0)
    ELSE FracInt(0)

\* assess_reading from "# Calculate metrics" on: al is what align_sequences
\* returned.  raised names the exception that leaves the function, "" when it
\* returns the ORFResults
Metrics(transcript, target_text, n_ref, al, duration_seconds) ==
    LET n_hits == Len(al.hits)
        n_subs == Len(al.substitutions)
        n_ins == Len(al.insertions)
        n_dels == Len(al.deletions)
        wer == WerOf(n_subs, n_dels, n_ins, n_ref)
        accuracy == AccuracyOf(wer)
        wcpm == WcpmOf(n_hits, duration_seconds)
    IN  IF wer.den = 0 \/ accuracy.den = 0 \/ wcpm.den = 0
        THEN [raised |-> "ZeroDivisionError"]
        ELSE [raised |-> "", transcript |-> transcript,
              target_text |-> target_text, wcpm |-> wcpm, hits |-> n_hits,
              substitutions |-> n_subs, insertions |-> n_ins,
              deletions |-> n_dels, wer |-> wer, accuracy |-> accuracy,
              detailed_errors |-> [substitutions |-> al.substitutions,
                                   insertions |-> al.insertions,
                                   deletions |-> al.deletions]]

\* assess_reading from "# Clean texts and split into words" on
ScoreTranscript(transcript, target_text, target_words, duration_seconds) ==
    Metrics(transcript, target_text, Len(target_words),
            align_sequences(target_words, Split(clean_text(transcript))),
            duration_seconds)

\* assess_reading(audio_file_path, target_text, duration_seconds)
assess_reading(asr, target_text, duration_seconds) ==
    IF generate_transcript(asr).raised
    THEN [raised |-> "TranscriptionError"]
    ELSE ScoreTranscript(generate_transcript(asr).transcript, target_text,
                         Split(clean_text(target_text)), duration_seconds)

----------------------------------------------------------------------------
(* The requests of app/api/routes.py: what each one holds *)

Requests == 1..NumRequests

NoRequest == [pc |-> "idle", kind |-> "", student_name |-> "", target_text |-> <<>>,
              audio |-> "ok", duration_seconds |-> None, student |-> 0,
              errors |-> None, results |-> None, metrics |-> None,
              status |-> 0, detail |-> "",
              validate_calls |-> 0, assess_calls |-> 0]

IdleApi ==
    /\ students = <<>>
    /\ assessments = <<>>
    /\ req = [r \in {} |-> NoRequest]

----------------------------------------------------------------------------
(* The alignment engine as a state machine: one run of align_sequences *)

Words == {<<"a">>, <<"b">>, <<"c">>}

LongPad == [n \in 1..(AutoJunkMinLen + LongExtra) |-> <<"a">>]

ShortSeqs == SeqsUpTo(Words, MaxLen)

LongSeqs == {pre \o LongPad : pre \in SeqsUpTo(Words, MaxLongPrefix)}

TokenSeqs == ShortSeqs \cup LongSeqs

NoLocal == [alo |-> 0, ahi |-> 0, blo |-> 0, bhi |-> 0, i |-> 0, j |-> 0, k |-> 0]

NoArgs == [audio |-> "ok", text |-> <<>>, asr |-> [raises |-> TRUE], duration |-> None]

InitAlign ==
    /\ reference_words \in TokenSeqs
    /\ transcript_words \in TokenSeqs
    /\ queue = <<[alo |-> 0, ahi |-> Len(reference_words),
                  blo |-> 0, bhi |-> Len(transcript_words)]>>
    /\ matching_blocks = <<>>
    /\ match_local = NoLocal
    /\ opcodes = <<>>
    /\ op_idx = 0
    /\ hits = <<>>
    /\ substitutions = <<>>
    /\ insertions = <<>>
    /\ deletions = <<>>
    /\ pc = "match"
    /\ call_args = NoArgs
    /\ call_errors = None
    /\ call_results = None
    /\ IdleApi

\* get_matching_blocks: one turn of "while queue"
MatchBlock ==
    /\ pc = "match"
    /\ queue /= <<>>
    /\ LET r == MatchTurn(reference_words, transcript_words, queue, matching_blocks)
       IN  /\ queue' = r.queue
           /\ matching_blocks' = r.blocks
           /\ match_local' = r.local
    /\ UNCHANGED <<reference_words, transcript_words, opcodes, op_idx, hits,
                   substitutions, insertions, deletions, pc>>
    /\ UNCHANGED <<callVars, apiVars>>

\* the queue is empty: sort and collapse the blocks, build the opcodes
GetOpcodes ==
    /\ pc = "match"
    /\ queue = <<>>
    /\ opcodes' = get_opcodes(matching_blocks, Len(reference_words),
                              Len(transcript_words))
    /\ op_idx' = 1
    /\ pc' = "classify"
    /\ UNCHANGED <<reference_words, transcript_words, queue, matching_blocks,
                   match_local, hits, substitutions, insertions, deletions>>
    /\ UNCHANGED <<callVars, apiVars>>

\* one turn of the for loop over the opcodes
ClassifyStep ==
    /\ pc = "classify"
    /\ op_idx <= Len(opcodes)
    /\ LET acc == ClassifyOpcode(reference_words, transcript_words, opcodes[op_idx],
                                 [hits |-> hits, substitutions |-> substitutions,
                                  insertions |-> insertions, deletions |-> deletions])
       IN  /\ hits' = acc.hits
           /\ substitutions' = acc.substitutions
           /\ insertions' = acc.insertions
           /\ deletions' = acc.deletions
    /\ op_idx' = op_idx + 1
    /\ UNCHANGED <<reference_words, transcript_words, queue, matching_blocks,
                   match_local, opcodes, pc>>
    /\ UNCHANGED <<callVars, apiVars>>

\* return hits, substitutions, insertions, deletions
AlignReturn ==
    /\ pc = "classify"
    /\ op_idx > Len(opcodes)
    /\ pc' = "done"
    /\ UNCHANGED <<reference_words, transcript_words, queue, matching_blocks,
                   match_local, opcodes, op_idx, hits, substitutions,
                   insertions, deletions>>
    /\ UNCHANGED <<callVars, apiVars>>

NextAlign == MatchBlock \/ GetOpcodes \/ ClassifyStep \/ AlignReturn

SpecAlign == InitAlign /\ [][NextAlign]_vars

----------------------------------------------------------------------------
(* Callers of validate_inputs and assess_reading, one call of each *)

CycleWords == <<<<"a">>, <<"b">>, <<"c">>>>

\* the words a b c a b c ... of a passage of n words
Passage(n) == [k \in 1..n |-> CycleWords[((k - 1) % 3) + 1]]

RECURSIVE Join(_, _)
Join(ws, sp) ==
    IF ws = <<>> THEN <<>>
    ELSE IF Len(ws) = 1 THEN ws[1]
    ELSE ws[1] \o sp \o Join(Tail(ws), sp)

Upper(text) ==
    [n \in 1..Len(text) |->
        IF text[n] = "a" THEN "A" ELSE IF text[n] = "b" THEN "B"
        ELSE IF text[n] = "c" THEN "C" ELSE text[n]]

\* raw words that end a text: punctuation alone, a word with punctuation
RawTails == SeqsUpTo({<<"-">>, <<"B", ",">>}, MaxTail)

Texts ==
    {Join(Passage(n) \o tail, <<" ">>) :
        n \in (MinWords - 2)..MinWords, tail \in RawTails}
    \cup {<<>>,
          Join([k \in 1..MinWords |-> <<"-">>], <<" ">>),
          <<" ">> \o Join(Passage(MinWords), <<" ", "\n">>) \o <<".", "\n">>,
          Join(Passage(MinWords - 1), <<"-">>) \o <<" ", "a">>}

AsrOutputs ==
    {[raises |-> TRUE]} \cup
    {[raises |-> FALSE, decoded |-> d] :
        d \in {<<>>,
               Upper(Join(Passage(MinWords), <<" ">>)),
               <<" ">> \o Upper(Join(Passage(MinWords - 2), <<" ">>)) \o <<" ", "C", "C">>,
               <<"C", " ", "A", " ", "A", " ", "B">>}}

AudioFiles == {"unreadable", "empty", "quiet", "ok"}

Durations ==
    {None} \cup {Some(Frac(n, d)) : n \in {0 - 60, 0, 1, 60, 90}, d \in {1, 2}}

IdleAlign ==
    /\ reference_words = <<>>
    /\ transcript_words = <<>>
    /\ queue = <<>>
    /\ matching_blocks = <<>>
    /\ match_local = NoLocal
    /\ opcodes = <<>>
    /\ op_idx = 0
    /\ hits = <<>>
    /\ substitutions = <<>>
    /\ insertions = <<>>
    /\ deletions = <<>>
    /\ pc = "idle"

InitAssess ==
    /\ IdleAlign
    /\ call_args \in [audio : AudioFiles, text : Texts, asr : AsrOutputs,
                      duration : Durations]
    /\ call_errors = None
    /\ call_results = None
    /\ IdleApi

\* errors = orf_service.validate_inputs(audio_path, target_text)
CallValidateInputs ==
    /\ pc = "idle"
    /\ call_errors = None
    /\ call_errors' = Some(validate_inputs(call_args.audio, call_args.text))
    /\ UNCHANGED <<alignVars, apiVars, call_args, call_results>>

\* results = orf_service.assess_reading(audio_path, target_text, duration_seconds)
CallAssessReading ==
    /\ pc = "idle"
    /\ call_results = None
    /\ call_results' = Some(assess_reading(call_args.asr, call_args.text,
                                           call_args.duration))
    /\ UNCHANGED <<alignVars, apiVars, call_args, call_errors>>

NextAssess == CallValidateInputs \/ CallAssessReading

SpecAssess == InitAssess /\ [][NextAssess]_vars

----------------------------------------------------------------------------
(* create_student and process_assessment, request by request.  What a       *)
(* request does between two database statements is one step.  create_student *)
(* is a plain "def": each call runs in a thread of the pool and interleaves  *)
(* with every other request between its statements.  process_assessment is   *)
(* an "async def" on the one event loop of the server (uvicorn.run, a single *)
(* process): it gives the loop up only at "await audio_file.read()", so two  *)
(* of them interleave only there.                                            *)

StudentNames == {"ana", "ben"}

RequestTexts ==
    {Join(Passage(MinWords), <<" ">>),
     Join(Passage(MinWords - 1) \o <<<<"-">>>>, <<" ">>),
     Join(Passage(MinWords - 2), <<" ">>)}

RequestAudio == {"ok", "quiet"}

RequestAsr ==
    {[raises |-> TRUE],
     [raises |-> FALSE, decoded |-> Upper(Join(Passage(MinWords - 1), <<" ">>))]}

RequestDurations == {Some(FracInt(SecondsPerMinute))}

Init ==
    /\ IdleAlign
    /\ call_args = NoArgs
    /\ call_errors = None
    /\ call_results = None
    /\ students = <<>>
    /\ assessments = <<>>
    /\ req = [r \in Requests |-> NoRequest]

\* db.query(Student).filter(Student.name == name).first(): the id, 0 for None
StudentByName(name) ==
    LET found == {n \in 1..Len(students) : students[n].name = name}
    IN  IF found = {} THEN 0 ELSE students[Min(found)].id

\* another process_assessment is running on the event loop: it is between its
\* student query and its insert, or past "await audio_file.read()" and not
\* yet at its response
LoopBusy(r) ==
    \E o \in Requests \ {r} :
        /\ req[o].kind = "assess"
        /\ req[o].pc \in {"insert_student", "assess", "save"}

\* POST /students arrives
ReceiveCreateStudent(r) ==
    /\ req[r].pc = "idle"
    /\ \E name \in StudentNames :
          req' = [req EXCEPT ![r] = [NoRequest EXCEPT !.pc = "query_student",
                                        !.kind = "create_student",
                                        !.student_name = name]]
    /\ UNCHANGED <<alignVars, callVars, students, assessments>>

\* POST /assess/custom (or /assess/default) arrives with its form fields
ReceiveAssessment(r) ==
    /\ req[r].pc = "idle"
    /\ \E name \in StudentNames, text \in RequestTexts, audio \in RequestAudio,
          duration \in RequestDurations :
          req' = [req EXCEPT ![r] = [NoRequest EXCEPT !.pc = "query_student",
                                        !.kind = "assess",
                                        !.student_name = name,
                                        !.target_text = text,
                                        !.audio = audio,
                                        !.duration_seconds = duration]]
    /\ UNCHANGED <<alignVars, callVars, students, assessments>>

\* "existing_student = db.query(Student)...first()" of create_student, which
\* returns the student found, and "student = db.query(Student)...first()" of
\* process_assessment
QueryStudent(r) ==
    /\ req[r].pc = "query_student"
    /\ req[r].kind = "assess" => ~LoopBusy(r)
    /\ LET id == StudentByName(req[r].student_name)
       IN  req' = [req EXCEPT ![r] =
                    IF id = 0 THEN [@ EXCEPT !.pc = "insert_student"]
                    ELSE IF @.kind = "create_student"
                    THEN [@ EXCEPT !.pc = "done", !.student = id, !.status = 200]
                    ELSE [@ EXCEPT !.pc = "validate", !.student = id]]
    /\ UNCHANGED <<alignVars, callVars, students, assessments>>

\* "db.add(Student(name=...)); db.commit(); db.refresh(...)": the unique
\* constraint on students.name makes the commit raise IntegrityError, which no
\* handler catches (status 500), when the name is already in the table
InsertStudent(r) ==
    /\ req[r].pc = "insert_student"
    /\ IF StudentByName(req[r].student_name) /= 0
       THEN /\ req' = [req EXCEPT ![r] = [@ EXCEPT !.pc = "done", !.status = 500,
                                             !.detail = "IntegrityError"]]
            /\ UNCHANGED students
       ELSE LET id == Len(students) + 1
            IN  /\ students' = Append(students,
                                      [id |-> id, name |-> req[r].student_name])
                /\ req' = [req EXCEPT ![r] =
                            IF @.kind = "create_student"
                            THEN [@ EXCEPT !.pc = "done", !.student = id,
                                           !.status = 200]
                            ELSE [@ EXCEPT !.pc = "validate", !.student = id]]
    /\ UNCHANGED <<alignVars, callVars, assessments>>

\* process_assessment going on to assess_reading whatever validate_inputs says
ValidateInputs_Continue(r) ==
    /\ req[r].pc = "validate"
    /\ ~LoopBusy(r)
    /\ LET errors == validate_inputs(req[r].audio, req[r].target_text)
       IN  req' = [req EXCEPT ![r] =
                    [@ EXCEPT !.pc = "assess", !.errors = Some(errors),
                              !.validate_calls = @ + 1]]
    /\ UNCHANGED <<alignVars, callVars, students, assessments>>

\* the coroutine resumes after "await audio_file.read()": the audio file is
\* written, then "errors = orf_service.validate_inputs(...)"
\* and "if errors: raise HTTPException(status_code=400, ...)"
ValidateInputs(r) ==
    /\ req[r].pc = "validate"
    /\ ~LoopBusy(r)
    /\ LET errors == validate_inputs(req[r].audio, req[r].target_text)
       IN  req' = [req EXCEPT ![r] =
                    IF errors /= <<>>
                    THEN [@ EXCEPT !.pc = "done", !.errors = Some(errors),
                                   !.status = 400, !.detail = "Validation failed",
                                   !.validate_calls = @ + 1]
                    ELSE [@ EXCEPT !.pc = "assess", !.errors = Some(errors),
                                   !.validate_calls = @ + 1]]
    /\ UNCHANGED <<alignVars, callVars, students, assessments>>

\* "except Exception as e: raise HTTPException(status_code=500, ...)", or on to
\* "# Save to database"; q is the request, results what assess_reading gave
AfterAssess(q, results) ==
    IF results.raised /= ""
    THEN [q EXCEPT !.pc = "done", !.results = Some(results), !.status = 500,
                   !.detail = "Assessment processing failed",
                   !.assess_calls = @ + 1]
    ELSE [q EXCEPT !.pc = "save", !.results = Some(results),
                   !.assess_calls = @ + 1]

\* "try: results = orf_service.assess_reading(...)" and "except Exception:
\* raise HTTPException(status_code=500, ...)"
AssessReading(r) ==
    /\ req[r].pc = "assess"
    /\ \E asr \in RequestAsr :
          req' = [req EXCEPT ![r] =
                    AfterAssess(@, assess_reading(asr, req[r].target_text,
                                                  req[r].duration_seconds))]
    /\ UNCHANGED <<alignVars, callVars, students, assessments>>

\* "db.add(assessment); db.commit(); db.refresh(assessment)" and the response
\* with the metrics; the audio file name (a fresh uuid) is the request's own
SaveAssessment(r) ==
    /\ req[r].pc = "save"
    /\ LET results == req[r].results.val
       IN  assessments' = Append(assessments,
                [id |-> Len(assessments) + 1,
                 student_id |-> req[r].student,
                 audio_file_path |-> r,
                 wcpm |-> results.wcpm,
                 hits |-> results.hits,
                 substitutions |-> results.substitutions,
                 insertions |-> results.insertions,
                 deletions |-> results.deletions,
                 accuracy_percentage |->
                     Frac(results.accuracy.num * 100, results.accuracy.den)])
    /\ LET results == req[r].results.val
           metrics == [wcpm |-> results.wcpm, hits |-> results.hits,
                       substitutions |-> results.substitutions,
                       insertions |-> results.insertions,
                       deletions |-> results.deletions,
                       accuracy_percentage |->
                           Frac(results.accuracy.num * 100, results.accuracy.den),
                       wer |-> results.wer]
       IN  req' = [req EXCEPT ![r] = [@ EXCEPT !.pc = "done", !.status = 200,
                                         !.metrics = Some(metrics)]]
    /\ UNCHANGED <<alignVars, callVars, students>>

Next ==
    \E r \in Requests :
        \/ ReceiveCreateStudent(r)
        \/ ReceiveAssessment(r)
        \/ QueryStudent(r)
        \/ InsertStudent(r)
        \/ ValidateInputs(r)
        \/ AssessReading(r)
        \/ SaveAssessment(r)

Spec == Init /\ [][Next]_vars

----------------------------------------------------------------------------
(* Properties of the alignment engine, checked under SpecAlign *)

\* C1: when align_sequences returns, len(hits) + len(substitutions) +
\* len(deletions) equals len(reference_words): every reference token is
\* classified exactly once.
C1_ReferenceClassifiedOnce ==
    pc = "done" =>
        Len(hits) + Len(substitutions) + Len(deletions) = Len(reference_words)

C1_Witness ==
    /\ pc = "done"
    /\ Len(hits) > 0
    /\ Len(substitutions) > 0
    /\ Len(deletions) > 0

\* C2: when align_sequences returns, len(hits) + len(substitutions) +
\* len(insertions) equals len(transcript_words): every hypothesis token is
\* classified exactly once.
C2_HypothesisClassifiedOnce ==
    pc = "done" =>
        Len(hits) + Len(substitutions) + Len(insertions) = Len(transcript_words)

C2_Witness ==
    /\ pc = "done"
    /\ Len(hits) > 0
    /\ Len(substitutions) > 0
    /\ Len(insertions) > 0

\* C3: aligning a token sequence against itself makes every token a hit, with
\* no substitution, insertion or deletion, so WER is 0 and accuracy is 1.
C3_IdenticalAllHits ==
    (pc = "done" /\ reference_words = transcript_words) =>
        /\ hits = [n \in 1..Len(reference_words) |->
                      <<reference_words[n], reference_words[n]>>]
        /\ substitutions = <<>>
        /\ insertions = <<>>
        /\ deletions = <<>>
        /\ LET wer == WerOf(Len(substitutions), Len(deletions), Len(insertions),
                            Len(reference_words))
           IN  FracEq(wer, FracInt(0)) /\ FracEq(AccuracyOf(wer), FracInt(1))

C3_Witness ==
    /\ pc = "done"
    /\ reference_words = transcript_words
    /\ Len(reference_words) >= 2
    /\ Len(hits) = Len(reference_words)

\* C4: the opcodes are in ascending order and partition [0,N) and [0,M): the
\* first starts at (0,0), each starts where the previous one ended, the last
\* ends at (N,M) (there is no opcode only when N = M = 0), none is empty, and
\* an 'equal' opcode has ranges of the same length.
C4_OpcodesPartition ==
    pc \in {"classify", "done"} =>
        LET N == Len(reference_words)
            M == Len(transcript_words)
            L == Len(opcodes)
        IN  /\ L = 0 => (N = 0 /\ M = 0)
            /\ L > 0 => /\ opcodes[1].i1 = 0 /\ opcodes[1].j1 = 0
                        /\ opcodes[L].i2 = N /\ opcodes[L].j2 = M
            /\ \A n \in 2..L : /\ opcodes[n].i1 = opcodes[n - 1].i2
                               /\ opcodes[n].j1 = opcodes[n - 1].j2
            /\ \A n \in 1..L :
                  /\ opcodes[n].i1 <= opcodes[n].i2
                  /\ opcodes[n].j1 <= opcodes[n].j2
                  /\ opcodes[n].i1 < opcodes[n].i2 \/ opcodes[n].j1 < opcodes[n].j2
                  /\ opcodes[n].tag \in {"equal", "replace", "delete", "insert"}
                  /\ opcodes[n].tag = "equal" =>
                        opcodes[n].i2 - opcodes[n].i1 = opcodes[n].j2 - opcodes[n].j1

C4_Witness ==
    /\ pc = "done"
    /\ Len(opcodes) >= 3
    /\ \E n \in 1..Len(opcodes) : opcodes[n].tag = "equal"
    /\ \E n \in 1..Len(opcodes) : opcodes[n].tag = "replace"

\* C5: the turn of the loop that handles a 'replace' opcode with reference
\* range of length p and hypothesis range of length q appends exactly the
\* min(p,q) positional pairs (R[i1+k], H[j1+k]) to the substitutions, then the
\* remaining p-q reference tokens to the deletions if p > q, or the remaining
\* q-p hypothesis tokens to the insertions if q > p, and no hit.
C5_ReplacePositional ==
    [][(pc = "classify" /\ op_idx <= Len(opcodes)
            /\ opcodes[op_idx].tag = "replace" /\ op_idx' = op_idx + 1) =>
        LET op == opcodes[op_idx]
            p == op.i2 - op.i1
            q == op.j2 - op.j1
            m == MinOf(p, q)
        IN  /\ substitutions' = substitutions \o
                    [k \in 1..m |-> <<reference_words[op.i1 + k],
                                      transcript_words[op.j1 + k]>>]
            /\ deletions' = deletions \o
                    (IF p > q THEN [k \in 1..(p - q) |-> reference_words[op.i1 + q + k]]
                     ELSE <<>>)
            /\ insertions' = insertions \o
                    (IF q > p THEN [k \in 1..(q - p) |-> transcript_words[op.j1 + p + k]]
                     ELSE <<>>)
            /\ hits' = hits]_vars

C5_Witness ==
    /\ pc = "classify"
    /\ op_idx > 1
    /\ opcodes[op_idx - 1].tag = "replace"
    /\ opcodes[op_idx - 1].i2 - opcodes[op_idx - 1].i1 >
          opcodes[op_idx - 1].j2 - opcodes[op_idx - 1].j1
    /\ Len(substitutions) > 0
    /\ Len(deletions) > 0

\* a run of k equal tokens at reference index i and hypothesis index j, inside
\* the sub-ranges [alo, ahi) and [blo, bhi)
CommonRun(c, i, j, k) ==
    /\ i >= c.alo /\ i + k <= c.ahi
    /\ j >= c.blo /\ j + k <= c.bhi
    /\ \A d \in 1..k : reference_words[i + d] = transcript_words[j + d]

\* C6: the block chosen for a sub-range pair is a longest run of tokens common
\* to both sub-ranges, the one of smallest reference index and then smallest
\* hypothesis index among the longest; the sub-ranges before and after it are
\* queued for the same treatment (when both sides of a pair are non-empty).
C6_LongestBlockChosen ==
    LET c == match_local
        x == match_local
        before == IF c.alo < x.i /\ c.blo < x.j
                  THEN <<[alo |-> c.alo, ahi |-> x.i, blo |-> c.blo, bhi |-> x.j]>>
                  ELSE <<>>
        after == IF x.i + x.k < c.ahi /\ x.j + x.k < c.bhi
                 THEN <<[alo |-> x.i + x.k, ahi |-> c.ahi,
                         blo |-> x.j + x.k, bhi |-> c.bhi]>>
                 ELSE <<>>
        pushed == before \o after
    IN  /\ CommonRun(c, x.i, x.j, x.k)
        /\ \A i \in c.alo..(c.ahi - 1), j \in c.blo..(c.bhi - 1) :
              /\ ~CommonRun(c, i, j, x.k + 1)
              /\ CommonRun(c, i, j, x.k) =>
                    (x.k = 0 \/ x.i < i \/ (x.i = i /\ x.j <= j))
        /\ (pc = "match" /\ x.k > 0) =>
              /\ Len(queue) >= Len(pushed)
              /\ SubSeq(queue, Len(queue) - Len(pushed) + 1, Len(queue)) = pushed

----------------------------------------------------------------------------
(* Properties of the metrics, checked under SpecAssess *)

\* the tokens that assess_reading scores as the reference
ScoredReference(text) == Split(clean_text(text))

\* C7: when assess_reading returns, WER is (substitutions + deletions +
\* insertions) / N for a reference of N > 0 tokens and 0 for N = 0, whatever
\* the insertions; it is never negative, and the function never leaves with a
\* division by zero.
C7_WerGuarded ==
    (call_results.some /\ call_results.val.raised /= "TranscriptionError") =>
        LET r == call_results.val
            N == Len(ScoredReference(call_args.text))
        IN  /\ r.raised = ""
            /\ r.wer.den > 0
            /\ r.wer.num >= 0
            /\ N > 0 => r.wer.num * N =
                          (r.substitutions + r.deletions + r.insertions) * r.wer.den
            /\ N = 0 => r.wer.num = 0

C7_Witness ==
    /\ call_results.some
    /\ call_results.val.raised = ""
    /\ Len(ScoredReference(call_args.text)) = 0
    /\ call_results.val.insertions > 0

\* C8: when assess_reading returns, WCPM is hits / (duration_seconds / 60) for
\* a positive duration and 0 for a duration that is None, zero or negative; it
\* is never negative, and the function never leaves with a division by zero.
C8_WcpmGuarded ==
    (call_results.some /\ call_results.val.raised /= "TranscriptionError") =>
        LET r == call_results.val
            d == call_args.duration
        IN  /\ r.raised = ""
            /\ r.wcpm.den > 0
            /\ r.wcpm.num >= 0
            /\ IF d.some /\ d.val.num > 0
               THEN r.wcpm.num * d.val.num =
                        r.hits * SecondsPerMinute * d.val.den * r.wcpm.den
               ELSE r.wcpm.num = 0

C8_Witness ==
    /\ call_results.some
    /\ call_results.val.raised = ""
    /\ call_args.duration.some
    /\ call_args.duration.val.num > 0
    /\ call_results.val.hits > 0
    /\ call_results.val.wcpm.num > 0

----------------------------------------------------------------------------
(* Properties of process_assessment, checked under Spec *)

TextTooShort == "Text too short (minimum 10 words)"

\* C9: a target text whose scored token sequence (clean_text, then split) has
\* fewer than 10 tokens is reported by validate_inputs as "Text too short
\* (minimum 10 words)": no request gets past validation with such a text.
C9_ShortTextRejected ==
    \A r \in Requests :
        (req[r].errors.some /\ Len(ScoredReference(req[r].target_text)) < MinWords)
            => TextTooShort \in Range(req[r].errors.val)

\* the Assessment rows stored by request r (its audio file name is its own)
StoredBy(r) == {n \in 1..Len(assessments) : assessments[n].audio_file_path = r}

\* request r got an empty error list from validate_inputs and a result from
\* assess_reading
PassedBoth(r) ==
    /\ req[r].errors.some /\ req[r].errors.val = <<>>
    /\ req[r].results.some /\ req[r].results.val.raised = ""

\* C10: an Assessment row is stored and metrics are returned only for a request
\* whose validation returned no error and whose assess_reading returned; a
\* request whose validation fails or whose transcription raises ends in an
\* error with no metrics and no row; neither step runs twice; once every
\* request has ended, the rows are as many as the requests that passed both.
C10_StoredOnlyWhenBothPassed ==
    /\ \A r \in Requests :
          /\ Cardinality(StoredBy(r)) <= 1
          /\ req[r].validate_calls <= 1
          /\ req[r].assess_calls <= 1
          /\ (StoredBy(r) /= {} \/ req[r].metrics.some) => PassedBoth(r)
          /\ (req[r].errors.some /\ req[r].errors.val /= <<>>) =>
                /\ req[r].pc = "done" /\ req[r].status = 400
                /\ ~req[r].metrics.some /\ StoredBy(r) = {}
                /\ req[r].assess_calls = 0
          /\ (req[r].results.some /\ req[r].results.val.raised /= "") =>
                /\ req[r].pc = "done" /\ req[r].status = 500
                /\ ~req[r].metrics.some /\ StoredBy(r) = {}
    /\ (\A r \in Requests : req[r].pc = "done") =>
          Len(assessments) = Cardinality({r \in Requests : PassedBoth(r)})

C10_Witness ==
    /\ \A r \in Requests : req[r].pc = "done"
    /\ \E r \in Requests : req[r].metrics.some /\ StoredBy(r) /= {}
    /\ \E r \in Requests : req[r].results.some /\ req[r].results.val.raised /= ""
    /\ Len(assessments) = 1

\* request r has obtained its Student record (found or created)
HasStudent(r) == req[r].student /= 0

\* C11: student creation is get-or-create by name: however create_student and
\* process_assessment requests with the same name interleave, none of them ends
\* on the unique-name constraint (every create_student that has ended has
\* status 200), all of them obtain the same Student record, and the table
\* never holds two students of the same name.
C11_GetOrCreateByName ==
    /\ \A r \in Requests :
          /\ req[r].detail /= "IntegrityError"
          /\ (req[r].kind = "create_student" /\ req[r].pc = "done") =>
                (req[r].status = 200 /\ HasStudent(r))
    /\ \A r, o \in Requests :
          (HasStudent(r) /\ HasStudent(o)
                /\ req[r].student_name = req[o].student_name) =>
             req[r].student = req[o].student
    /\ \A n, m \in 1..Len(students) :
          students[n].name = students[m].name => n = m

----------------------------------------------------------------------------
(* Pairs of the alignment, checked under SpecAlign *)

\* the tokens of s at the Python indices lo..hi-1
TokensIn(s, lo, hi) == {s[n] : n \in (lo + 1)..hi}

\* C12: every pair of the hits has the same reference and hypothesis token,
\* and every pair of the substitutions has different ones: the two sub-ranges
\* of a 'replace' opcode have no token in common, so the positional pairing
\* inside it never pairs a word with itself.
C12_SubstitutionsDiffer ==
    /\ \A n \in 1..Len(hits) : hits[n][1] = hits[n][2]
    /\ \A n \in 1..Len(substitutions) : substitutions[n][1] /= substitutions[n][2]
    /\ pc \in {"classify", "done"} =>
          \A n \in 1..Len(opcodes) :
              opcodes[n].tag = "replace" =>
                  TokensIn(reference_words, opcodes[n].i1, opcodes[n].i2)
                    \cap TokensIn(transcript_words, opcodes[n].j1, opcodes[n].j2) = {}

====
